---- MODULE Spec2Model ----
(***************************************************************************)
(* Walk-forward validation bundle (src/validation): the in-sample window   *)
(* schedule, the greedy correlation filter, the selection unit, and the    *)
(* full backtester (in-sample selection, out-of-sample test, aggregation). *)
(*                                                                         *)
(* Numbers.  Returns and turnover are small integers (they are reals in    *)
(* the program; the integers are a bounded sample of them).  Quotients are *)
(* kept exact as pairs <<num, den>> with den > 0, not-a-number as NaN, and *)
(* a Pearson correlation as cov / sqrt(var1 * var2) with the comparison    *)
(* against the threshold decided exactly; floating-point rounding is not   *)
(* modelled.                                                               *)
(*                                                                         *)
(* Dates.  A date is the integer 32 * (12 * year + month - 1) + day, so    *)
(* that the order of dates is the order of the integers.                   *)
(***************************************************************************)
EXTENDS Integers, Sequences, FiniteSets, TLC

VARIABLES
    pc,                 \* position of the caller
    call,               \* the call in progress: its arguments and loop variables
    ret,                \* its return value
    cfg,                \* FullBacktester: the configuration fields of __init__
    df,                 \* FullBacktester.df: [columns, index, data]
    turnover_df,        \* FullBacktester.turnover_df: [present, columns, index, data]; present = FALSE is None
    slices,             \* FullBacktester.schedule.slices
    in_sample_results,  \* FullBacktester.in_sample_results: dict, as a sequence of [key, val]
    oos_results,        \* FullBacktester.oos_results: dict, as a sequence of [key, val]
    agg,                \* value returned by aggregate_oos
    err,                \* the exception that ended the run, [kind, ...]; kind = "none": none
    ens                 \* FullBacktesterEnsemble: [active, config_list, i, results, aggs]

vars == <<pc, call, ret, cfg, df, turnover_df, slices, in_sample_results, oos_results, agg, err, ens>>

btvars == <<cfg, df, turnover_df, slices, in_sample_results, oos_results, agg, err>>

-----------------------------------------------------------------------------
(* Bounds of the model *)

MaxWindow == 2
MaxStep == 2

-----------------------------------------------------------------------------
(* Calendar: pandas Timestamp, DateOffset(months=k), Timedelta(days=1) *)

Min(a, b) == IF a <= b THEN a ELSE b

MkDate(y, mo, d) == 32 * (12 * y + mo - 1) + d

MonthIdx(t) == t \div 32

DayOf(t) == t % 32

YearOf(t) == MonthIdx(t) \div 12

MonthOf(t) == (MonthIdx(t) % 12) + 1

IsLeap(y) == (y % 4 = 0) /\ ((y % 100 # 0) \/ (y % 400 = 0))

DaysIn(mi) ==
    LET mo == (mi % 12) + 1
        y  == mi \div 12
    IN  IF mo = 2 THEN (IF IsLeap(y) THEN 29 ELSE 28)
        ELSE IF mo \in {4, 6, 9, 11} THEN 30 ELSE 31

\* t + pd.DateOffset(months=k): the month moves by k, the day is clamped to
\* the length of the month reached.
AddMonths(t, k) ==
    LET mi == MonthIdx(t) + k
    IN  32 * mi + Min(DayOf(t), DaysIn(mi))

\* t + pd.Timedelta(days=1)
AddDay(t) ==
    IF DayOf(t) < DaysIn(MonthIdx(t)) THEN t + 1 ELSE 32 * (MonthIdx(t) + 1) + 1

-----------------------------------------------------------------------------
(* walkforward.py: WalkForwardSchedule *)

RECURSIVE AnchoredLoop(_, _, _, _)
AnchoredLoop(analysis_start, current_end, max_allowed_end, step) ==
    IF current_end <= max_allowed_end
    THEN <<<<analysis_start, current_end>>>>
         \o AnchoredLoop(analysis_start, AddMonths(current_end, step), max_allowed_end, step)
    ELSE <<>>

RECURSIVE RollingLoop(_, _, _, _)
RollingLoop(current_start, window_length, max_allowed_end, step) ==
    LET current_end == AddMonths(current_start, window_length)
    IN  IF current_end <= max_allowed_end
        THEN <<<<current_start, current_end>>>>
             \o RollingLoop(AddMonths(current_start, step), window_length, max_allowed_end, step)
        ELSE <<>>

GenerateSlices(index_max, first_os, window_length, anchored, step_months) ==
    LET analysis_start  == AddMonths(first_os, 0 - window_length)
        max_allowed_end == AddMonths(index_max, 0 - step_months)
    IN  IF anchored
        THEN <<<<analysis_start, first_os>>>>
             \o AnchoredLoop(analysis_start, AddMonths(first_os, step_months),
                             max_allowed_end, step_months)
        ELSE RollingLoop(analysis_start, window_length, max_allowed_end, step_months)

-----------------------------------------------------------------------------
(* correlation_filter.py *)
(* A matrix is the sequence of its columns, a column the sequence of its    *)
(* observations.  Indices are 1-based here: the source's index 0 is 1.      *)

RECURSIVE SumSeq(_)
SumSeq(s) == IF s = <<>> THEN 0 ELSE s[1] + SumSeq(Tail(s))

\* compute_correlation(col1, col2).  With n observations, diff = x[i] - mean
\* is (n * x[i] - sum) / n; cov, var1, var2 are kept scaled by n * n, which
\* cancels in cov / sqrt(var1 * var2).  The value is cov / sqrt(vv).
\* n = 0: "mean1 /= n" divides by zero.
ComputeCorrelation(col1, col2) ==
    LET n    == Len(col1)
        s1   == SumSeq(col1)
        s2   == SumSeq(col2)
        cov  == SumSeq([i \in 1..n |-> (n * col1[i] - s1) * (n * col2[i] - s2)])
        var1 == SumSeq([i \in 1..n |-> (n * col1[i] - s1) * (n * col1[i] - s1)])
        var2 == SumSeq([i \in 1..n |-> (n * col2[i] - s2) * (n * col2[i] - s2)])
    IN  IF n = 0 THEN [kind |-> "ZeroDivisionError", cov |-> 0, vv |-> 1]
        ELSE IF var1 = 0 \/ var2 = 0 THEN [kind |-> "val", cov |-> 0, vv |-> 1]
        ELSE [kind |-> "val", cov |-> cov, vv |-> var1 * var2]

\* Mutant of CorrGE: the comparison written "corr > max_corr"
CorrGT(c, mc) ==
    LET l == mc[2] * c.cov
        r == mc[1] * mc[1] * c.vv
    IN  IF mc[1] >= 0 THEN l >= 0 /\ l * l > r
        ELSE l >= 0 \/ l * l < r

\* corr >= max_corr, for corr = c.cov / sqrt(c.vv) and max_corr = mc[1] / mc[2]
CorrGE(c, mc) ==
    LET l == mc[2] * c.cov
        r == mc[1] * mc[1] * c.vv
    IN  IF mc[1] >= 0 THEN l >= 0 /\ l * l >= r
        ELSE l >= 0 \/ l * l <= r

\* The inner loop of get_uncorrelated_indices: col against the retained ones.
IsUncorrelated(selected_data, selected_indices, col, max_corr) ==
    \A k \in 1..Len(selected_indices) :
        ~CorrGE(ComputeCorrelation(selected_data[selected_indices[k]], selected_data[col]),
                max_corr)

RECURSIVE FilterLoop(_, _, _, _, _)
FilterLoop(selected_data, max_corr, max_columns, col, selected_indices) ==
    IF col > Len(selected_data) THEN selected_indices
    ELSE LET kept == IF IsUncorrelated(selected_data, selected_indices, col, max_corr)
                     THEN Append(selected_indices, col)
                     ELSE selected_indices
         IN  IF Len(kept) >= max_columns THEN kept
             ELSE FilterLoop(selected_data, max_corr, max_columns, col + 1, kept)

\* get_uncorrelated_indices(selected_data, max_corr, max_columns).  A
\* comparison is made as soon as there are two columns; with no observations
\* it raises.
GetUncorrelatedIndices(selected_data, max_corr, max_columns) ==
    IF Len(selected_data) >= 2 /\ Len(selected_data[1]) = 0
    THEN [err |-> "ZeroDivisionError", idx |-> <<>>]
    ELSE [err |-> "none",
          idx |-> FilterLoop(selected_data, max_corr, max_columns, 2, <<1>>)]

\* df.columns.get_indexer(names): the position of each name, 0 when absent
\* (pandas: -1).
GetIndexer(columns, names) ==
    [i \in 1..Len(names) |->
        IF \E j \in 1..Len(columns) : columns[j] = names[i]
        THEN CHOOSE j \in 1..Len(columns) : columns[j] = names[i]
        ELSE 0]

\* Mutant of CorrelationFilterFilter: the names are looked up with the indices
\* relative to the candidate list, "self.df.columns[filtered_rel_indices]"
FilterNamesByRelIndex(columns, data, selected_columns, metric_values, max_corr, max_columns) ==
    LET indices       == GetIndexer(columns, selected_columns)
        selected_data == [i \in 1..Len(indices) |-> data[indices[i]]]
        rel           == GetUncorrelatedIndices(selected_data, max_corr, max_columns)
    IN  IF rel.err # "none"
        THEN [err |-> rel.err, rel |-> <<>>, columns |-> <<>>, values |-> <<>>]
        ELSE IF \E k \in 1..Len(rel.idx) : rel.idx[k] > Len(indices)
        THEN [err |-> "IndexError", rel |-> rel.idx, columns |-> <<>>, values |-> <<>>]
        ELSE [err |-> "none",
              rel |-> rel.idx,
              columns |-> [k \in 1..Len(rel.idx) |-> columns[rel.idx[k]]],
              values |-> [k \in 1..Len(rel.idx) |-> metric_values[rel.idx[k]]]]

\* CorrelationFilter(df).filter(selected_columns, metric_values, max_corr, max_columns)
\* with df.columns = columns and df.values = data.
CorrelationFilterFilter(columns, data, selected_columns, metric_values, max_corr, max_columns) ==
    LET indices       == GetIndexer(columns, selected_columns)
        selected_data == [i \in 1..Len(indices) |-> data[indices[i]]]
        rel           == GetUncorrelatedIndices(selected_data, max_corr, max_columns)
    IN  IF rel.err # "none"
        THEN [err |-> rel.err, rel |-> <<>>, columns |-> <<>>, values |-> <<>>]
        ELSE IF \E k \in 1..Len(rel.idx) : rel.idx[k] > Len(indices)
        THEN [err |-> "IndexError", rel |-> rel.idx, columns |-> <<>>, values |-> <<>>]
        ELSE [err |-> "none",
              rel |-> rel.idx,
              columns |-> [k \in 1..Len(rel.idx) |-> columns[indices[rel.idx[k]]]],
              values |-> [k \in 1..Len(rel.idx) |-> metric_values[rel.idx[k]]]]

-----------------------------------------------------------------------------
(* Quotients: <<num, den>> with den > 0; NaN is not-a-number *)

NaN == <<0, 0>>

IsNaN(a) == a[2] = 0

\* Mutant of RatGE: the test written "not (a < b)", which not-a-number passes
RatNotLess(a, b) == IsNaN(a) \/ IsNaN(b) \/ a[1] * b[2] >= b[1] * a[2]

\* a >= b on floats: FALSE as soon as one side is not-a-number
RatGE(a, b) == ~IsNaN(a) /\ ~IsNaN(b) /\ a[1] * b[2] >= b[1] * a[2]

RatEq(a, b) == ~IsNaN(a) /\ ~IsNaN(b) /\ a[1] * b[2] = b[1] * a[2]

\* num / den for den # 0
Quot(num, den) == IF den > 0 THEN <<num, den>> ELSE <<0 - num, 0 - den>>

-----------------------------------------------------------------------------
(* metrics.py *)

\* np.prod of a sequence of whole numbers
RECURSIVE ProdSeq(_)
ProdSeq(s) == IF s = <<>> THEN 1 ELSE s[1] * ProdSeq(Tail(s))

\* compute_highest_return(data): np.sum(data, axis=0)
ComputeHighestReturn(data) == [j \in 1..Len(data) |-> SumSeq(data[j])]

\* compute_average_trade_ratio(returns, turnover): per column,
\* np.where(total_turnover != 0, total_pl / total_turnover, np.nan)
ComputeAverageTradeRatio(returns, turnover) ==
    [j \in 1..Len(returns) |->
        LET total_pl       == SumSeq(returns[j])
            total_turnover == SumSeq(turnover[j])
        IN  IF total_turnover # 0 THEN Quot(total_pl, total_turnover) ELSE NaN]

\* The scoring functions of METRICS the model computes: name, co_argcount,
\* the 'ascending' attribute
Metrics == { [name |-> "highest_return", argcount |-> 1, ascending |-> FALSE] }

\* The METRICS dict: every registered scoring function with the names of its
\* positional parameters (its co_argcount is their number), the number of
\* them that have a default value (the trailing ones), and its 'ascending'
\* attribute
METRICS ==
    { [name |-> "sharpe", params |-> <<"data", "risk_free_rate">>,
       defaults |-> 1, ascending |-> FALSE],
      [name |-> "highest_return", params |-> <<"data">>,
       defaults |-> 0, ascending |-> FALSE],
      [name |-> "max_drawdown", params |-> <<"data">>,
       defaults |-> 0, ascending |-> TRUE],
      [name |-> "volatility", params |-> <<"data", "annualize", "trading_days">>,
       defaults |-> 2, ascending |-> FALSE],
      [name |-> "momentum", params |-> <<"data", "lookback">>,
       defaults |-> 1, ascending |-> FALSE],
      [name |-> "avg_trade", params |-> <<"returns", "turnover", "risk_free_rate">>,
       defaults |-> 1, ascending |-> FALSE],
      [name |-> "composite",
       params |-> <<"data", "risk_free_rate", "momentum_lookback", "weight_sharpe",
                    "weight_momentum">>,
       defaults |-> 4, ascending |-> FALSE] }

\* METRICS.get(metric_name): None (present = FALSE) for a name that is not a key
MetricsGet(metric_name) ==
    IF \E m \in METRICS : m.name = metric_name
    THEN [present |-> TRUE,
          func |-> LET m == CHOOSE m \in METRICS : m.name = metric_name
                   IN  [name |-> m.name, argcount |-> Len(m.params),
                        ascending |-> m.ascending]]
    ELSE [present |-> FALSE]

\* np.cumprod(1 + x): the product of the 1 + x[i] up to row k
CumProd(x, k) == ProdSeq([i \in 1..k |-> 1 + x[i]])

\* np.maximum.accumulate(cum_returns): the largest cumulative product up to row k
RunningMax(x, k) == CHOOSE m \in { CumProd(x, i) : i \in 1..k } :
                        \A i \in 1..k : CumProd(x, i) <= m

\* compute_max_drawdown(data): per column, minus the least of the
\* (cum_returns - running_max) / running_max.  On whole-number returns whose
\* first is above -1, running_max is positive and is an earlier cumulative
\* product, which divides the later ones: the division is exact.  No row:
\* np.min of an empty axis raises ValueError (not modelled; the frames have
\* rows).
ComputeMaxDrawdown(data) ==
    [j \in 1..Len(data) |->
        LET drawdowns == { (CumProd(data[j], k) - RunningMax(data[j], k))
                              \div RunningMax(data[j], k) : k \in 1..Len(data[j]) }
            max_dd    == CHOOSE d \in drawdowns : \A e \in drawdowns : d <= e
        IN  0 - max_dd]

\* metric_func(data) or metric_func(data, risk_free_rate): the functions whose
\* scores are computed take the matrix only (co_argcount 1)
MetricValues(metric, data, risk_free_rate) ==
    IF metric.name = "max_drawdown" THEN ComputeMaxDrawdown(data)
    ELSE ComputeHighestReturn(data)

-----------------------------------------------------------------------------
(* initial_selector.py *)

\* The call of metric_func in select_best, for a function m of METRICS: with
\* co_argcount 2 it is metric_func(self.data, self.risk_free_rate), else
\* metric_func(self.data).  The arguments are positional: argument i is bound
\* to parameter i.  A parameter without default that gets no argument makes
\* the call raise TypeError.
MetricCall(m, data, risk_free_rate) ==
    LET args == IF Len(m.params) = 2
                THEN << [arg |-> "self.data", val |-> data],
                        [arg |-> "self.risk_free_rate", val |-> risk_free_rate] >>
                ELSE << [arg |-> "self.data", val |-> data] >>
    IN  [err   |-> IF Len(args) < Len(m.params) - m.defaults THEN "TypeError" ELSE "none",
         bound |-> [i \in 1..Len(args) |->
                       [param |-> m.params[i], arg |-> args[i].arg, val |-> args[i].val]]]

\* np.argsort(values): the indices by increasing value; equal values keep
\* their index order (numpy sorts arrays of up to 16 elements by insertion).
ArgSort(values) ==
    [r \in 1..Len(values) |->
        CHOOSE i \in 1..Len(values) :
            Cardinality({ j \in 1..Len(values) :
                            \/ values[j] < values[i]
                            \/ (values[j] = values[i] /\ j < i) }) = r - 1]

Reverse(s) == [i \in 1..Len(s) |-> s[Len(s) + 1 - i]]

\* s[:n] for n >= 0
Take(s, n) == SubSeq(s, 1, Min(n, Len(s)))

\* Mutant of SelectBest: descending, the list is cut before it is reversed,
\* "np.argsort(metric_values)[:top_n][::-1]"
SelectBestCutFirst(columns, data, risk_free_rate, metric, top_n) ==
    LET metric_values == MetricValues(metric, data, risk_free_rate)
        top_indices   == IF metric.ascending
                         THEN Take(ArgSort(metric_values), top_n)
                         ELSE Reverse(Take(ArgSort(metric_values), top_n))
    IN  [columns |-> [i \in 1..Len(top_indices) |-> columns[top_indices[i]]],
         values  |-> [i \in 1..Len(top_indices) |-> metric_values[top_indices[i]]]]

\* InitialSelector(df, risk_free_rate).select_best(metric_func, top_n)
SelectBest(columns, data, risk_free_rate, metric, top_n) ==
    LET metric_values == MetricValues(metric, data, risk_free_rate)
        top_indices   == IF metric.ascending
                         THEN Take(ArgSort(metric_values), top_n)
                         ELSE Take(Reverse(ArgSort(metric_values)), top_n)
    IN  [columns |-> [i \in 1..Len(top_indices) |-> columns[top_indices[i]]],
         values  |-> [i \in 1..Len(top_indices) |-> metric_values[top_indices[i]]]]

-----------------------------------------------------------------------------
(* selection_unit.py *)
(* turnover and min_avg_trade are [present, ...]: present = FALSE is None   *)

\* s[mask] for a boolean mask
RECURSIVE Masked(_, _)
Masked(s, mask) ==
    IF s = <<>> THEN <<>>
    ELSE (IF mask[1] THEN <<s[1]>> ELSE <<>>) \o Masked(Tail(s), Tail(mask))

\* Mutant of PerformSelection: the average-trade mask is applied to the names
\* and not to the scores
PerformSelectionScoresUnmasked(columns, data, risk_free_rate, turnover, min_avg_trade, metric, top_n, max_corr, max_columns) ==
    LET sel  == SelectBest(columns, data, risk_free_rate, metric, top_n)
        flt  == CorrelationFilterFilter(columns, data, sel.columns, sel.values,
                                        max_corr, max_columns)
        idx  == GetIndexer(columns, flt.columns)
        avg_trade  == ComputeAverageTradeRatio([i \in 1..Len(idx) |-> data[idx[i]]],
                                               [i \in 1..Len(idx) |-> turnover.data[idx[i]]])
        valid_mask == [i \in 1..Len(idx) |-> RatGE(avg_trade[i], min_avg_trade.val)]
    IN  IF flt.err # "none"
        THEN [err |-> flt.err, selected |-> <<>>, values |-> <<>>, filtered |-> <<>>,
              filtered_values |-> <<>>, has_avg_trade |-> FALSE, avg_trade |-> <<>>]
        ELSE IF turnover.present /\ min_avg_trade.present
        THEN [err |-> "none", selected |-> sel.columns, values |-> sel.values,
              filtered |-> Masked(flt.columns, valid_mask),
              filtered_values |-> flt.values,
              has_avg_trade |-> TRUE,
              avg_trade |-> Masked(avg_trade, valid_mask)]
        ELSE [err |-> "none", selected |-> sel.columns, values |-> sel.values,
              filtered |-> flt.columns,
              filtered_values |-> flt.values,
              has_avg_trade |-> FALSE, avg_trade |-> <<>>]

\* SelectionUnit(df, risk_free_rate, turnover_df, min_avg_trade)
\*    .perform_selection(metric_func, top_n, max_corr, max_columns)
\* with df.columns = columns, df.values = data, turnover_df.values = turnover.data
PerformSelection(columns, data, risk_free_rate, turnover, min_avg_trade, metric, top_n, max_corr, max_columns) ==
    LET sel  == SelectBest(columns, data, risk_free_rate, metric, top_n)
        flt  == CorrelationFilterFilter(columns, data, sel.columns, sel.values,
                                        max_corr, max_columns)
        idx  == GetIndexer(columns, flt.columns)
        avg_trade  == ComputeAverageTradeRatio([i \in 1..Len(idx) |-> data[idx[i]]],
                                               [i \in 1..Len(idx) |-> turnover.data[idx[i]]])
        valid_mask == [i \in 1..Len(idx) |-> RatGE(avg_trade[i], min_avg_trade.val)]
    IN  IF flt.err # "none"
        THEN [err |-> flt.err, selected |-> <<>>, values |-> <<>>, filtered |-> <<>>,
              filtered_values |-> <<>>, has_avg_trade |-> FALSE, avg_trade |-> <<>>]
        ELSE IF turnover.present /\ min_avg_trade.present
        THEN [err |-> "none", selected |-> sel.columns, values |-> sel.values,
              filtered |-> Masked(flt.columns, valid_mask),
              filtered_values |-> Masked(flt.values, valid_mask),
              has_avg_trade |-> TRUE,
              avg_trade |-> Masked(avg_trade, valid_mask)]
        ELSE [err |-> "none", selected |-> sel.columns, values |-> sel.values,
              filtered |-> flt.columns,
              filtered_values |-> flt.values,
              has_avg_trade |-> FALSE, avg_trade |-> <<>>]

-----------------------------------------------------------------------------
(* Frames with a date index: [columns |-> names, index |-> dates, increasing, *)
(* data |-> columns of values]                                                *)

\* Positions of the rows of df.loc[a:b]: both ends are included
LocRows(index, a, b) ==
    SelectSeq([i \in 1..Len(index) |-> i], LAMBDA i : a <= index[i] /\ index[i] <= b)

\* df.loc[a:b]
Loc(tab, a, b) ==
    LET rows == LocRows(tab.index, a, b)
    IN  [columns |-> tab.columns,
         index |-> [k \in 1..Len(rows) |-> tab.index[rows[k]]],
         data  |-> [j \in 1..Len(tab.data) |-> [k \in 1..Len(rows) |-> tab.data[j][rows[k]]]]]

\* df.index.max()
IndexMax(tab) == tab.index[Len(tab.index)]

\* d[key] = val on a dict kept as the sequence of its items in insertion order
DictSet(d, key, entry) ==
    IF \E i \in 1..Len(d) : d[i].key = key
    THEN [i \in 1..Len(d) |-> IF d[i].key = key THEN entry ELSE d[i]]
    ELSE Append(d, entry)

-----------------------------------------------------------------------------
(* walkforward.py: WalkForwardRunner *)

\* f"{start.date()} to {end.date()}": the two dates as year, month, day
PeriodKey(start, end) ==
    << <<YearOf(start), MonthOf(start), DayOf(start)>>,
       <<YearOf(end), MonthOf(end), DayOf(end)>> >>

\* The body of the loop of WalkForwardRunner.run for one slice.  'rows' records
\* the dates of df_slice (not a field of the program's result: it keeps what
\* entered the selection).  (The slices are bound as elements of singleton
\* sets so that they are computed once.)
WalkForwardRunItem(c, tab, turnover, slice) ==
    CHOOSE item \in
        { [key  |-> PeriodKey(slice[1], slice[2]),
           val  |-> PerformSelection(df_slice.columns, df_slice.data, c.risk_free_rate,
                                     turnover_slice, c.min_avg_trade, c.metric,
                                     c.top_n, c.max_corr, c.max_columns),
           rows |-> df_slice.index] :
          df_slice \in { Loc(tab, slice[1], slice[2]) },
          turnover_slice \in
              { IF turnover.present
                THEN [present |-> TRUE, data |-> Loc(turnover, slice[1], slice[2]).data]
                ELSE [present |-> FALSE, data |-> <<>>] } } : TRUE

-----------------------------------------------------------------------------
(* oos_tester.py *)

RECURSIVE Gcd(_, _)
Gcd(a, b) == IF b = 0 THEN a ELSE Gcd(b, a % b)

Abs(a) == IF a < 0 THEN 0 - a ELSE a

\* The quotient n / d, d > 0, in lowest terms (the same number)
Reduced(n, d) == LET g == Gcd(Abs(n), d) IN <<n \div g, d \div g>>

\* np.prod(1 + data) for a sequence of quotients: the product of the
\* (den + num) / den, each in lowest terms
ProdOnePlus(vals) ==
    <<ProdSeq([i \in 1..Len(vals) |-> Reduced(vals[i][2] + vals[i][1], vals[i][2])[1]]),
      ProdSeq([i \in 1..Len(vals) |-> Reduced(vals[i][2] + vals[i][1], vals[i][2])[2]])>>

\* compute_cumulative_return(data): np.prod(1 + data) - 1
ComputeCumulativeReturn(vals) ==
    <<ProdOnePlus(vals)[1] - ProdOnePlus(vals)[2], ProdOnePlus(vals)[2]>>

\* np.sum(data) for quotients of one common denominator
SumNum(vals) == SumSeq([i \in 1..Len(vals) |-> vals[i][1]])

\* compute_portfolio_avg_trade(portfolio_returns, portfolio_turnover); both
\* are means over the same assets, so the common denominator cancels
ComputePortfolioAvgTrade(portfolio_returns, portfolio_turnover) ==
    IF SumNum(portfolio_turnover) # 0
    THEN Quot(SumNum(portfolio_returns), SumNum(portfolio_turnover))
    ELSE NaN

\* tab[selected_columns].mean(axis=1): per row, the sum over the selected
\* columns over their number
MeanOfColumns(tab, selected_columns) ==
    LET idx == GetIndexer(tab.columns, selected_columns)
    IN  [k \in 1..Len(tab.index) |->
            <<SumSeq([i \in 1..Len(idx) |-> tab.data[idx[i]][k]]), Len(idx)>>]

\* OutOfSampleTester(oos_df, selected_columns, turnover_oos_df, risk_free_rate).run().
\* The volatility and Sharpe entries (standard deviations) are not modelled.
OutOfSampleTesterRun(oos_df, selected_columns, turnover_oos) ==
    CHOOSE result \in
        { [dates |-> oos_df.index,
           portfolio_returns_series |-> portfolio_returns,
           cumulative_return |-> ComputeCumulativeReturn(portfolio_returns),
           has_turnover |-> turnover_oos.present,
           portfolio_turnover_series |-> portfolio_turnover,
           portfolio_avg_trade |->
               IF turnover_oos.present
               THEN ComputePortfolioAvgTrade(portfolio_returns, portfolio_turnover)
               ELSE NaN] :
          portfolio_returns \in { MeanOfColumns(oos_df, selected_columns) },
          portfolio_turnover \in
              { IF turnover_oos.present THEN MeanOfColumns(turnover_oos, selected_columns)
                ELSE <<>> } } : TRUE

-----------------------------------------------------------------------------
(* full_backtester.py: FullBacktester *)

\* pd.to_datetime(period.split(" to ")[1])
PeriodEnd(period) == MkDate(period[2][1], period[2][2], period[2][3])

\* An out-of-sample range that would begin on the in-sample end itself
OosStartAtEnd(insample_end) == insample_end

\* insample_end + pd.Timedelta(days=1)
OosStart(insample_end) == AddDay(insample_end)

\* insample_end + pd.DateOffset(months=self.step_months)
OosEnd(insample_end, step_months) == AddMonths(insample_end, step_months)

\* The body of the loop of FullBacktester.run_oos for one item of
\* in_sample_results.  Line 64 reads self.turnover_df.loc before anything else
\* looks at the window: with turnover_df = None it raises AttributeError.
RunOosItem(c, tab, turnover, item) ==
    IF ~turnover.present
    THEN [kind |-> "raise", err |-> "AttributeError", key |-> item.key]
    ELSE CHOOSE r \in
           { IF Len(oos_slice.index) = 0 THEN [kind |-> "continue", key |-> item.key]
             ELSE IF Len(item.val.filtered) = 0 THEN [kind |-> "continue", key |-> item.key]
             ELSE [kind |-> "result", key |-> item.key,
                   val |-> OutOfSampleTesterRun(oos_slice, item.val.filtered, oos_turnover)] :
             oos_slice \in
                 { Loc(tab, OosStart(PeriodEnd(item.key)),
                       OosEnd(PeriodEnd(item.key), c.step_months)) },
             oos_turnover \in
                 { [present |-> TRUE] @@
                   Loc(turnover, OosStart(PeriodEnd(item.key)),
                       OosEnd(PeriodEnd(item.key), c.step_months)) } } : TRUE


\* The series of the results that are not None and not empty, in dict order,
\* as sequences of [date, val]
RECURSIVE CollectSeries(_, _, _)
CollectSeries(results, field, i) ==
    IF i > Len(results) THEN <<>>
    ELSE LET res == results[i].val
             ser == IF field = "returns" THEN res.portfolio_returns_series
                    ELSE res.portfolio_turnover_series
             present == field = "returns" \/ res.has_turnover
         IN  (IF present /\ Len(ser) > 0
              THEN <<[k \in 1..Len(ser) |-> [date |-> res.dates[k], val |-> ser[k]]]>>
              ELSE <<>>)
             \o CollectSeries(results, field, i + 1)

\* pd.concat(list): element p of the concatenation is element k of list[i],
\* for the i and k with p = Len(list[1]) + ... + Len(list[i-1]) + k
Offset(list, i) == SumSeq([j \in 1..(i - 1) |-> Len(list[j])])

Concat(list) ==
    [p \in 1..Offset(list, Len(list) + 1) |->
        LET i == CHOOSE i \in 1..Len(list) :
                    Offset(list, i) < p /\ p <= Offset(list, i) + Len(list[i])
        IN  list[i][p - Offset(list, i)]]

\* series.sort_index(): by date; rows of one date keep their order
SortIndex(series) ==
    [r \in 1..Len(series) |->
        series[CHOOSE i \in 1..Len(series) :
                  Cardinality({ j \in 1..Len(series) :
                                  \/ series[j].date < series[i].date
                                  \/ (series[j].date = series[i].date /\ j < i) }) = r - 1]]

Vals(series) == [k \in 1..Len(series) |-> series[k].val]

\* The entries of 'full_oos_series', overall_cumulative_return and
\* overall_avg_trade of the dict aggregate_oos returns, from the two sorted
\* series (full_turnover_series is None when no turnover series was collected)
AggregateResult(full_returns_series, has_turnover, full_turnover_series) ==
    [kind |-> "result",
     full_oos_series |-> full_returns_series,
     overall_cumulative_return |-> ComputeCumulativeReturn(Vals(full_returns_series)),
     overall_avg_trade |->
         IF has_turnover
         THEN [present |-> TRUE,
               val |-> ComputePortfolioAvgTrade(Vals(full_returns_series),
                                                Vals(full_turnover_series))]
         ELSE [present |-> FALSE, val |-> NaN]]

\* FullBacktester.aggregate_oos().  overall_volatility and overall_sharpe
\* (standard deviations) are not modelled.
AggregateOos(results) ==
    CHOOSE a \in
        { IF portfolio_returns_list = <<>> THEN [kind |-> "None"]
          ELSE CHOOSE b \in
                 { AggregateResult(full_returns_series, portfolio_turnover_list # <<>>,
                                   full_turnover_series) :
                   full_returns_series \in
                       { CHOOSE s \in { SortIndex(c) : c \in { Concat(portfolio_returns_list) } } :
                             TRUE },
                   full_turnover_series \in
                       { CHOOSE s \in { SortIndex(c) : c \in { Concat(portfolio_turnover_list) } } :
                             TRUE } } : TRUE :
          portfolio_returns_list \in { CollectSeries(results, "returns", 1) },
          portfolio_turnover_list \in { CollectSeries(results, "turnover", 1) } } : TRUE


-----------------------------------------------------------------------------
(* Idle values of the variables a specification does not use *)

NoCall == [fn |-> "none"]

\* No FullBacktesterEnsemble: the backtester is driven directly
NoEnsemble == [active |-> FALSE]

IdleBacktester ==
    /\ cfg = [fn |-> "none"]
    /\ df = [columns |-> <<>>, index |-> <<>>, data |-> <<>>]
    /\ turnover_df = [present |-> FALSE, columns |-> <<>>, index |-> <<>>, data |-> <<>>]
    /\ slices = <<>>
    /\ in_sample_results = <<>>
    /\ oos_results = <<>>
    /\ agg = [kind |-> "unset"]
    /\ err = [kind |-> "none"]
    /\ ens = NoEnsemble

-----------------------------------------------------------------------------
(* Specification SchedSpec: WalkForwardSchedule(df, first_os, window_length, *)
(* anchored, step_months) is constructed and get_slices() is called.         *)

Day(mo, d) == MkDate(2021, mo, d)

IsDate(t) == DayOf(t) >= 1 /\ DayOf(t) <= DaysIn(MonthIdx(t))

SchedFirstOs ==
    { t \in { Day(mo, d) : mo \in 3..5, d \in {15, 30, 31} } : IsDate(t) }

SchedIndexMax ==
    { t \in { Day(mo, d) : mo \in {2, 5, 6, 7, 8}, d \in {15, 28, 30} } : IsDate(t) }

SchedInit ==
    /\ pc = "start"
    /\ call \in [ fn : {"WalkForwardSchedule"},
                  index_max : SchedIndexMax,
                  first_os : SchedFirstOs,
                  window_length : 1..MaxWindow,
                  anchored : BOOLEAN,
                  step_months : 1..MaxStep ]
    /\ ret = <<>>
    /\ IdleBacktester

NewSchedule ==
    /\ pc = "start"
    /\ call.fn = "WalkForwardSchedule"
    /\ ret' = GenerateSlices(call.index_max, call.first_os, call.window_length,
                             call.anchored, call.step_months)
    /\ pc' = "returned"
    /\ UNCHANGED <<ens, call, btvars>>

SchedNext == NewSchedule

SchedSpec == SchedInit /\ [][SchedNext]_vars

\* C1: every slice returned by get_slices() ends at least one step before the
\* end of the data: end + step_months does not exceed the maximum date of the
\* return table's index (anchored and rolling, every first_os, window, step).
C1_EndPlusStepWithinData ==
    (pc = "returned" /\ call.fn = "WalkForwardSchedule") =>
        \A i \in 1..Len(ret) :
            AddMonths(ret[i][2], call.step_months) <= call.index_max

\* Claim C13: the slices get_slices() returns have strictly increasing end
\* dates, each end being the previous end plus step_months; anchored, every
\* slice starts at first_os - window_length; rolling, each start is the
\* previous start plus step_months and every slice ends window_length months
\* after its start.
C13_SlicesOrderedAndSpaced ==
    (pc = "returned" /\ call.fn = "WalkForwardSchedule") =>
        /\ \A i \in 1..(Len(ret) - 1) :
              /\ ret[i][2] < ret[i + 1][2]
              /\ ret[i + 1][2] = AddMonths(ret[i][2], call.step_months)
        /\ call.anchored =>
              \A i \in 1..Len(ret) :
                  ret[i][1] = AddMonths(call.first_os, 0 - call.window_length)
        /\ ~call.anchored =>
              /\ \A i \in 1..Len(ret) :
                    ret[i][2] = AddMonths(ret[i][1], call.window_length)
              /\ \A i \in 1..(Len(ret) - 1) :
                    ret[i + 1][1] = AddMonths(ret[i][1], call.step_months)

-----------------------------------------------------------------------------
(* Specification FilterSpec: CorrelationFilter(df).filter(selected_columns,  *)
(* metric_values, max_corr, max_columns) is called on a frame of three       *)
(* columns; selected_columns is a rank-ordered list of distinct column names *)
(* and metric_values[i] the score of selected_columns[i].                    *)

MaxCap == 3

ColNames == <<"A", "B", "C">>

NameSet == {ColNames[i] : i \in 1..Len(ColNames)}

\* Observations of one column: three of them, 0 or 1
ColPool == { <<0, 0, 0>>, <<0, 0, 1>>, <<0, 1, 0>>, <<0, 1, 1>>, <<1, 1, 0>> }

\* The frames: every choice of columns from the pool, and the frame with no row
Frames == [1..Len(ColNames) -> ColPool] \cup { [i \in 1..Len(ColNames) |-> <<>>] }

\* Thresholds max_corr, as <<numerator, denominator>>
Thresholds == { <<0 - 1, 2>>, <<0, 1>>, <<1, 2>>, <<1, 1>> }

\* Rank-ordered lists of distinct names, the empty one included
RankLists ==
    { s \in UNION { [1..n -> NameSet] : n \in 0..Len(ColNames) } :
        \A i, j \in 1..Len(s) : i # j => s[i] # s[j] }

\* The score of a column in the function-level specifications
ScoreOf(name) == 10 * (CHOOSE j \in 1..Len(ColNames) : ColNames[j] = name)

FilterInit ==
    /\ pc = "start"
    /\ \E data \in Frames, sel \in RankLists, mc \in Thresholds, cap \in 1..MaxCap :
          call = [ fn |-> "CorrelationFilter.filter",
                   columns |-> ColNames,
                   data |-> data,
                   selected_columns |-> sel,
                   metric_values |-> [i \in 1..Len(sel) |-> ScoreOf(sel[i])],
                   max_corr |-> mc,
                   max_columns |-> cap ]
    /\ ret = <<>>
    /\ IdleBacktester

CallFilter ==
    /\ pc = "start"
    /\ call.fn = "CorrelationFilter.filter"
    /\ ret' = CorrelationFilterFilter(call.columns, call.data, call.selected_columns,
                                      call.metric_values, call.max_corr, call.max_columns)
    /\ pc' = "returned"
    /\ UNCHANGED <<ens, call, btvars>>

FilterNext == CallFilter

FilterSpec == FilterInit /\ [][FilterNext]_vars

FilterReturned == pc = "returned" /\ call.fn = "CorrelationFilter.filter" /\ ret.err = "none"

\* The observations of the candidate of rank r (1-based) in the call
CandidateData(r) ==
    call.data[CHOOSE j \in 1..Len(call.columns) : call.columns[j] = call.selected_columns[r]]

\* n * sum(x*y) - sum(x) * sum(y): n times the sum of products of deviations
Codev(x, y) ==
    Len(x) * SumSeq([i \in 1..Len(x) |-> x[i] * y[i]]) - SumSeq(x) * SumSeq(y)

\* Sign of (Pearson correlation of x and y) - mc[1]/mc[2], the correlation of a
\* pair with a constant series being 0: -1 below, 0 equal, 1 above.
PearsonVsThreshold(x, y, mc) ==
    LET c == Codev(x, y)
        v == Codev(x, x) * Codev(y, y)
        a == mc[2] * mc[2] * c * c     \* (q * cov)^2
        b == mc[1] * mc[1] * v         \* (p * sqrt(v))^2
    IN  IF v = 0 THEN (IF mc[1] > 0 THEN 0 - 1 ELSE IF mc[1] = 0 THEN 0 ELSE 1)
        ELSE IF c >= 0 /\ mc[1] >= 0 THEN (IF a < b THEN 0 - 1 ELSE IF a = b THEN 0 ELSE 1)
        ELSE IF c >= 0 THEN 1
        ELSE IF mc[1] >= 0 THEN 0 - 1
        ELSE (IF a > b THEN 0 - 1 ELSE IF a = b THEN 0 ELSE 1)

\* C2: every two distinct retained columns have a pairwise correlation
\* strictly below max_corr, and a candidate whose correlation with an
\* already-retained column equals max_corr is not retained.
C2_RetainedPairsBelowThreshold ==
    FilterReturned =>
        /\ \A i, j \in 1..Len(ret.rel) :
              i < j => PearsonVsThreshold(CandidateData(ret.rel[i]), CandidateData(ret.rel[j]),
                                          call.max_corr) = 0 - 1
        /\ \A c \in 2..Len(call.selected_columns) :
              (\E k \in 1..Len(ret.rel) :
                  /\ ret.rel[k] < c
                  /\ PearsonVsThreshold(CandidateData(ret.rel[k]), CandidateData(c),
                                        call.max_corr) = 0)
              => \A k \in 1..Len(ret.rel) : ret.rel[k] # c

\* C2 witness: two columns were retained, and a candidate whose correlation
\* with a retained column equals the threshold was dropped.
C2_Witness ==
    /\ FilterReturned
    /\ call.max_corr = <<1, 2>>
    /\ call.max_columns = 3
    /\ Len(ret.rel) >= 2
    /\ \E c \in 2..Len(call.selected_columns) :
          /\ \A k \in 1..Len(ret.rel) : ret.rel[k] # c
          /\ \E k \in 1..Len(ret.rel) :
                /\ ret.rel[k] < c
                /\ PearsonVsThreshold(CandidateData(ret.rel[k]), CandidateData(c),
                                      call.max_corr) = 0

\* C3: for every cap max_columns >= 1 the number of retained columns never
\* exceeds max_columns.
C3_RetainedAtMostCap ==
    (FilterReturned /\ call.max_columns >= 1) => Len(ret.rel) <= call.max_columns

RECURSIVE IsSubsequence(_, _)
IsSubsequence(a, b) ==
    IF a = <<>> THEN TRUE
    ELSE IF b = <<>> THEN FALSE
    ELSE IF a[1] = b[1] THEN IsSubsequence(Tail(a), Tail(b))
    ELSE IsSubsequence(a, Tail(b))

\* C4: for a non-empty rank-ordered candidate list the filter's output starts
\* with the rank-0 candidate and is a subsequence of the input in rank order
\* (candidates are removed, never reordered).
C4_RankZeroKeptAndOrderPreserved ==
    (FilterReturned /\ Len(call.selected_columns) >= 1) =>
        /\ Len(ret.columns) >= 1
        /\ ret.columns[1] = call.selected_columns[1]
        /\ IsSubsequence(ret.columns, call.selected_columns)

\* C4 witness: rank 0 is at least as correlated as the threshold with a later
\* candidate, a middle candidate was removed and a later one retained, and the
\* rank order differs from the frame's column order.
C4_Witness ==
    /\ FilterReturned
    /\ Len(call.selected_columns) = 3
    /\ call.selected_columns # call.columns
    /\ ret.rel = <<1, 3>>
    /\ PearsonVsThreshold(CandidateData(1), CandidateData(2), call.max_corr) >= 0

\* The loop of get_uncorrelated_indices reached candidate c: it had not
\* stopped on the cap at the end of an earlier iteration
Examined(c) ==
    c = 2 \/ Cardinality({ k \in 1..Len(ret.rel) : ret.rel[k] < c }) < call.max_columns

ZeroVariance(x) == Codev(x, x) = 0

\* Claim C14: a comparison in which one of the two series has zero variance
\* never rejects the candidate, whatever max_corr is: every candidate the loop
\* reached and dropped has, among the columns retained before it, one of
\* non-zero variance against which its own variance is non-zero and its
\* correlation is at least max_corr.
C14_ZeroVarianceNeverRejects ==
    FilterReturned =>
        \A c \in 2..Len(call.selected_columns) :
            (Examined(c) /\ \A k \in 1..Len(ret.rel) : ret.rel[k] # c) =>
                \E k \in 1..Len(ret.rel) :
                    /\ ret.rel[k] < c
                    /\ ~ZeroVariance(CandidateData(ret.rel[k]))
                    /\ ~ZeroVariance(CandidateData(c))
                    /\ PearsonVsThreshold(CandidateData(ret.rel[k]), CandidateData(c),
                                          call.max_corr) >= 0

-----------------------------------------------------------------------------
(* Specification SelSpec: SelectionUnit(df, risk_free_rate, turnover_df,     *)
(* min_avg_trade).perform_selection(metric_func, top_n, max_corr,            *)
(* max_columns) is called on one in-sample window of three columns.          *)

MaxTopN == 3

\* Turnover of one column over the window
TurnoverPool == { <<0, 0, 0>>, <<0, 1, 1>> }

NoTurnover == [present |-> FALSE, data |-> <<>>]

TurnoverFrames ==
    { [present |-> TRUE, data |-> t] : t \in [1..Len(ColNames) -> TurnoverPool] }
    \cup { NoTurnover }

NoMinAvgTrade == [present |-> FALSE, val |-> NaN]

MinAvgTrades == { NoMinAvgTrade, [present |-> TRUE, val |-> <<1, 2>>],
                  [present |-> TRUE, val |-> <<1, 1>>] }

SelInit ==
    /\ pc = "start"
    /\ call \in [ fn : {"SelectionUnit.perform_selection"},
                  columns : {ColNames},
                  data : Frames,
                  risk_free_rate : {0},
                  turnover : TurnoverFrames,
                  min_avg_trade : MinAvgTrades,
                  metric : Metrics,
                  top_n : 0..MaxTopN,
                  max_corr : { <<1, 2>>, <<1, 1>> },
                  max_columns : {1, MaxCap} ]
    /\ (call.turnover.present /\ Len(call.data[1]) = 0)
          => call.turnover.data = [i \in 1..Len(ColNames) |-> <<>>]
    /\ ret = <<>>
    /\ IdleBacktester

CallPerformSelection ==
    /\ pc = "start"
    /\ call.fn = "SelectionUnit.perform_selection"
    /\ ret' = PerformSelection(call.columns, call.data, call.risk_free_rate, call.turnover,
                               call.min_avg_trade, call.metric, call.top_n,
                               call.max_corr, call.max_columns)
    /\ pc' = "returned"
    /\ UNCHANGED <<ens, call, btvars>>

SelNext == CallPerformSelection

SelSpec == SelInit /\ [][SelNext]_vars

SelReturned == pc = "returned" /\ call.fn = "SelectionUnit.perform_selection" /\ ret.err = "none"

\* Position of a named asset among the columns of the window
AssetIdx(name) == CHOOSE j \in 1..Len(call.columns) : call.columns[j] = name

\* C5: 'filtered' is a subset by name of 'selected' in the same relative
\* order, and 'filtered_values' (and 'avg_trade' when present) has the length
\* of 'filtered', entry i being the value of the asset filtered[i].
C5_FilteredSubsetAndAligned ==
    SelReturned =>
        /\ IsSubsequence(ret.filtered, ret.selected)
        /\ Len(ret.filtered_values) = Len(ret.filtered)
        /\ \A i \in 1..Len(ret.filtered) :
              /\ i <= Len(ret.filtered_values)
              /\ ret.filtered_values[i] = SumSeq(call.data[AssetIdx(ret.filtered[i])])
        /\ ret.has_avg_trade =>
              /\ Len(ret.avg_trade) = Len(ret.filtered)
              /\ \A i \in 1..Len(ret.filtered) :
                    LET a == AssetIdx(ret.filtered[i])
                    IN  /\ ret.avg_trade[i][2] # 0
                        /\ ret.avg_trade[i][1] * SumSeq(call.turnover.data[a])
                              = SumSeq(call.data[a]) * ret.avg_trade[i][2]

\* C5 witness: three assets selected, one removed by the correlation filter or
\* the average-trade filter from the middle of the list, two left.
C5_Witness ==
    /\ SelReturned
    /\ ret.has_avg_trade
    /\ Len(ret.selected) = 3
    /\ Len(ret.filtered) = 2
    /\ ret.filtered = <<ret.selected[1], ret.selected[3]>>
    /\ ret.filtered_values[1] # ret.filtered_values[2]

\* C6: with turnover data and a min_avg_trade threshold, every asset of the
\* final 'filtered' has sum(returns) / sum(turnover) >= min_avg_trade over the
\* window, and an asset whose turnover sums to zero is never in 'filtered'.
C6_FilteredMeetMinAvgTrade ==
    (SelReturned /\ call.turnover.present /\ call.min_avg_trade.present) =>
        \A i \in 1..Len(ret.filtered) :
            LET a  == AssetIdx(ret.filtered[i])
                pl == SumSeq(call.data[a])
                to == SumSeq(call.turnover.data[a])
            IN  /\ to # 0
                /\ to > 0 => pl * call.min_avg_trade.val[2] >= call.min_avg_trade.val[1] * to
                /\ to < 0 => pl * call.min_avg_trade.val[2] <= call.min_avg_trade.val[1] * to

\* C6 witness: the correlation filter kept three assets; one has zero
\* turnover, one a ratio below the threshold, one a ratio equal to it, and
\* only the last is in 'filtered'.
C6_Witness ==
    /\ SelReturned /\ call.turnover.present /\ call.min_avg_trade.present
    /\ call.max_columns >= 3
    /\ Len(ret.selected) = 3
    /\ Len(ret.filtered) = 1
    /\ \E a, b, c \in 1..Len(call.columns) :
          /\ call.columns[c] = ret.filtered[1]
          /\ SumSeq(call.turnover.data[a]) = 0
          /\ SumSeq(call.turnover.data[b]) # 0
          /\ SumSeq(call.data[b]) * call.min_avg_trade.val[2]
                < call.min_avg_trade.val[1] * SumSeq(call.turnover.data[b])
          /\ SumSeq(call.data[c]) * call.min_avg_trade.val[2]
                = call.min_avg_trade.val[1] * SumSeq(call.turnover.data[c])
          /\ \A x \in {a, b} :
                PearsonVsThreshold(call.data[x], call.data[c], call.max_corr) = 0 - 1
          /\ PearsonVsThreshold(call.data[a], call.data[b], call.max_corr) = 0 - 1

-----------------------------------------------------------------------------
(* Specification Spec: one FullBacktester is constructed on a return frame   *)
(* of three assets with two rows a month (the 15th and the 30th), then       *)
(* run_in_sample(), run_oos() and aggregate_oos() are called in this order,  *)
(* as FullBacktesterEnsemble.run does.                                       *)

\* The elements of a set of dates in increasing order
SortedSeq(S) ==
    [k \in 1..Cardinality(S) |-> CHOOSE x \in S : Cardinality({y \in S : y < x}) = k - 1]

\* The dates of the frame from lo to hi
BtIndex(lo, hi) ==
    SortedSeq({ t \in { Day(mo, d) : mo \in 1..9, d \in {15, 30} } :
                  IsDate(t) /\ lo <= t /\ t <= hi })

\* Ordinal of a row in the year
RowOrd(t) == 2 * MonthOf(t) + (IF DayOf(t) = 30 THEN 1 ELSE 0)

\* Return of asset j on date t
BtReturn(t, j) ==
    IF j = 1 THEN RowOrd(t) % 2
    ELSE IF j = 2 THEN (IF RowOrd(t) % 3 = 0 THEN 1 ELSE 0)
    ELSE (IF MonthOf(t) % 2 = 0 THEN 1 ELSE 0)

\* Turnover of asset j on date t, in the two turnover frames
BtTurnover(kind, t, j) ==
    IF kind = "zero" THEN 0
    ELSE IF j = 1 THEN 1
    ELSE IF j = 2 THEN (IF DayOf(t) = 15 THEN 1 ELSE 0)
    ELSE 0

BtFrame(index) ==
    [columns |-> ColNames,
     index   |-> index,
     data    |-> [j \in 1..Len(ColNames) |-> [k \in 1..Len(index) |-> BtReturn(index[k], j)]]]

BtTurnoverFrame(kind, index) ==
    IF kind = "None"
    THEN [present |-> FALSE, columns |-> <<>>, index |-> <<>>, data |-> <<>>]
    ELSE [present |-> TRUE,
          columns |-> ColNames,
          index   |-> index,
          data    |-> [j \in 1..Len(ColNames) |->
                         [k \in 1..Len(index) |-> BtTurnover(kind, index[k], j)]]]

\* First and last date of the frames
BtRanges == { <<Day(1, 15), Day(3, 30)>>, <<Day(1, 15), Day(5, 30)>>,
              <<Day(1, 15), Day(7, 30)>>, <<Day(4, 15), Day(7, 30)>> }

BtFirstOs == { Day(3, 15), Day(3, 30), Day(3, 31) }

Init ==
    /\ pc = "constructed"
    /\ call = NoCall
    /\ ret = <<>>
    /\ cfg \in [ first_os : BtFirstOs,
                 window_length : 1..MaxWindow,
                 step_months : 1..MaxStep,
                 anchored : BOOLEAN,
                 risk_free_rate : {0},
                 metric : Metrics,
                 top_n : {1, MaxTopN},
                 max_corr : { <<1, 2>>, <<1, 1>> },
                 max_columns : {1, MaxCap},
                 min_avg_trade : { NoMinAvgTrade, [present |-> TRUE, val |-> <<1, 2>>] } ]
    /\ \E range \in BtRanges, kind \in {"None", "zero", "some"} :
          /\ df = BtFrame(BtIndex(range[1], range[2]))
          /\ turnover_df = BtTurnoverFrame(kind, BtIndex(range[1], range[2]))
    /\ slices = GenerateSlices(IndexMax(df), cfg.first_os, cfg.window_length,
                               cfg.anchored, cfg.step_months)
    /\ in_sample_results = <<>>
    /\ oos_results = <<>>
    /\ agg = [kind |-> "unset"]
    /\ err = [kind |-> "none"]
    /\ ens = NoEnsemble

\* FullBacktester.run_in_sample() is entered: WalkForwardRunner(...) is built
\* with results = {}
RunInSampleBegin ==
    /\ pc = "constructed"
    /\ pc' = "run_in_sample"
    /\ call' = [fn |-> "WalkForwardRunner.run", i |-> 1, results |-> <<>>]
    /\ UNCHANGED <<ens, ret, btvars>>

\* One iteration of the loop of WalkForwardRunner.run; an exception of
\* perform_selection ends run_in_sample
RunInSampleStep ==
    /\ pc = "run_in_sample"
    /\ call.i <= Len(slices)
    /\ \E item \in { WalkForwardRunItem(cfg, df, turnover_df, slices[call.i]) } :
           IF item.val.err = "none"
           THEN /\ call' = [call EXCEPT !.i = call.i + 1,
                                        !.results = DictSet(call.results, item.key, item)]
                /\ pc' = pc
                /\ err' = err
           ELSE /\ call' = NoCall
                /\ pc' = "raised"
                /\ err' = [kind |-> item.val.err, in |-> "run_in_sample", at |-> item.key]
    /\ UNCHANGED <<ens, ret, cfg, df, turnover_df, slices, in_sample_results, oos_results, agg>>

\* The loop is over: self.in_sample_results = runner.run()
RunInSampleEnd ==
    /\ pc = "run_in_sample"
    /\ call.i > Len(slices)
    /\ in_sample_results' = call.results
    /\ pc' = "in_sample_done"
    /\ call' = NoCall
    /\ UNCHANGED <<ens, ret, cfg, df, turnover_df, slices, oos_results, agg, err>>

\* FullBacktester.run_oos() is entered
RunOosBegin ==
    /\ pc = "in_sample_done"
    /\ pc' = "run_oos"
    /\ call' = [fn |-> "FullBacktester.run_oos", i |-> 1]
    /\ UNCHANGED <<ens, ret, btvars>>

\* One iteration of the loop of run_oos over in_sample_results.items()
RunOosStep ==
    /\ pc = "run_oos"
    /\ call.i <= Len(in_sample_results)
    /\ \E r \in { RunOosItem(cfg, df, turnover_df, in_sample_results[call.i]) } :
           IF r.kind = "raise"
           THEN /\ call' = NoCall
                /\ pc' = "raised"
                /\ err' = [kind |-> r.err, in |-> "run_oos", at |-> r.key]
                /\ oos_results' = oos_results
           ELSE /\ call' = [call EXCEPT !.i = call.i + 1]
                /\ pc' = pc
                /\ err' = err
                /\ oos_results' = IF r.kind = "continue" THEN oos_results
                                  ELSE DictSet(oos_results, r.key, [key |-> r.key, val |-> r.val])
    /\ UNCHANGED <<ens, ret, cfg, df, turnover_df, slices, in_sample_results, agg>>

\* The loop is over: return self.oos_results
RunOosEnd ==
    /\ pc = "run_oos"
    /\ call.i > Len(in_sample_results)
    /\ pc' = "oos_done"
    /\ call' = NoCall
    /\ UNCHANGED <<ens, ret, btvars>>

\* FullBacktester.aggregate_oos()
AggregateOosCall ==
    /\ pc = "oos_done"
    /\ \E a \in { AggregateOos(oos_results) } : agg' = a
    /\ pc' = "aggregated"
    /\ UNCHANGED <<ens, call, ret, cfg, df, turnover_df, slices, in_sample_results, oos_results, err>>

Next ==
    \/ RunInSampleBegin
    \/ RunInSampleStep
    \/ RunInSampleEnd
    \/ RunOosBegin
    \/ RunOosStep
    \/ RunOosEnd
    \/ AggregateOosCall

Spec == Init /\ [][Next]_vars

\* The entry of in_sample_results of a period
InSampleOf(key) == CHOOSE i \in 1..Len(in_sample_results) : in_sample_results[i].key = key

HasOosResult(key) == \E i \in 1..Len(oos_results) : oos_results[i].key = key

\* The dates of df after the in-sample end 'end' and up to 'end' plus
\* step_months, in increasing order
DatesAfterThrough(end) ==
    SelectSeq(df.index, LAMBDA t : end < t /\ t <= AddMonths(end, cfg.step_months))

\* The value of an asset of df on a date of its index
DfValue(name, t) ==
    df.data[CHOOSE j \in 1..Len(df.columns) : df.columns[j] = name]
           [CHOOSE r \in 1..Len(df.index) : df.index[r] = t]

\* Claim C7: every entry of oos_results holds exactly the rows of df dated
\* after its window's in-sample end (from end + 1 day) through end +
\* step_months, each row's portfolio return is the mean over the 'filtered'
\* assets of the in-sample result of the same period, and the rows that
\* entered that in-sample selection are dated from the window's start through
\* its end, none later.
C7_OosRowsFollowOwnWindow ==
    \A i \in 1..Len(oos_results) :
        LET e == oos_results[i]
            end == PeriodEnd(e.key)
        IN  /\ \E k \in 1..Len(in_sample_results) : in_sample_results[k].key = e.key
            /\ LET sel == in_sample_results[InSampleOf(e.key)]
               IN  /\ e.val.dates = DatesAfterThrough(end)
                   /\ Len(e.val.portfolio_returns_series) = Len(e.val.dates)
                   /\ \A k \in 1..Len(e.val.dates) :
                         e.val.portfolio_returns_series[k] =
                             <<SumSeq([f \in 1..Len(sel.val.filtered) |->
                                          DfValue(sel.val.filtered[f], e.val.dates[k])]),
                               Len(sel.val.filtered)>>
                   /\ \A k \in 1..Len(e.val.dates) : e.val.dates[k] > end
                   /\ \A k \in 1..Len(sel.rows) : sel.rows[k] <= end

\* Two windows with different filtered sets got their results, one of them
\* with in-sample end on a row of df and a last OOS row on end + step_months
C7_Witness ==
    /\ pc = "oos_done"
    /\ Len(oos_results) >= 2
    /\ \E i, j \in 1..Len(oos_results) :
          /\ in_sample_results[InSampleOf(oos_results[i].key)].val.filtered
                # in_sample_results[InSampleOf(oos_results[j].key)].val.filtered
          /\ \E r \in 1..Len(df.index) : df.index[r] = PeriodEnd(oos_results[i].key)
          /\ oos_results[i].val.dates[Len(oos_results[i].val.dates)]
                = AddMonths(PeriodEnd(oos_results[i].key), cfg.step_months)
          /\ in_sample_results[InSampleOf(oos_results[i].key)].rows # <<>>

\* A window that run_oos is to skip: no row of df in its OOS range, or an
\* empty 'filtered' selection
SkippedWindow(sel) ==
    \/ DatesAfterThrough(PeriodEnd(sel.key)) = <<>>
    \/ sel.val.filtered = <<>>

\* Claim C8: a window whose OOS date range has no rows, or whose 'filtered'
\* selection is empty, gets no entry in oos_results and run_oos does not raise
\* on it; and aggregate_oos returns None exactly when no entry of oos_results
\* has a non-empty return series (in particular when there is no window).
C8_SkippedWindowsAndNoneAggregate ==
    /\ \A k \in 1..Len(in_sample_results) :
          SkippedWindow(in_sample_results[k]) =>
              /\ ~HasOosResult(in_sample_results[k].key)
              /\ ~(pc = "raised" /\ err.in = "run_oos" /\ err.at = in_sample_results[k].key)
    /\ pc = "aggregated" =>
          (agg.kind = "None" <=>
              \A i \in 1..Len(oos_results) : oos_results[i].val.portfolio_returns_series = <<>>)

\* Claim C9: with turnover_df = None, once run_in_sample has returned, run_oos
\* does not raise (and so aggregate_oos is reached).
C9_NoTurnoverCompletes ==
    (~turnover_df.present /\ pc = "raised") => err.in # "run_oos"

\* Claim C10: the series aggregate_oos returns is in increasing date order
\* with no date twice, and overall_cumulative_return is prod(1 + r) - 1 over
\* that series.
C10_AggregateSortedDeduplicated ==
    (pc = "aggregated" /\ agg.kind = "result") =>
        /\ \A k \in 1..(Len(agg.full_oos_series) - 1) :
              agg.full_oos_series[k].date < agg.full_oos_series[k + 1].date
        /\ RatEq(agg.overall_cumulative_return,
                 ComputeCumulativeReturn(Vals(agg.full_oos_series)))

-----------------------------------------------------------------------------
(* Specification EnsSpec: FullBacktesterEnsemble(df, turnover_df,            *)
(* config_list).run().  Each iteration of its loop builds a FullBacktester   *)
(* and calls run_in_sample, run_oos and aggregate_oos on it: the actions of  *)
(* Spec, between EnsConfigBegin and EnsConfigEnd.                            *)

\* Longest config_list
MaxConfigs == 2

\* The frames of the ensemble: rows from 2021-01-15 to 2021-05-30
EnsIndex == BtIndex(Day(1, 15), Day(5, 30))

\* The configuration dictionaries the lists are made of
EnsConfigs ==
    [ first_os : {Day(3, 15)},
      window_length : {1},
      step_months : {1},
      anchored : BOOLEAN,
      risk_free_rate : {0},
      top_n : {1, MaxTopN},
      max_corr : { <<1, 1>> },
      max_columns : {MaxCap},
      min_avg_trade : {NoMinAvgTrade},
      metric_name : {"highest_return", "lowest_return"} ]

\* f"{metric_name}_WL{window_length}_Anchored{anchored}_Step{step_months}": the
\* four values the key is formatted from
ConfigKey(config) ==
    <<config.metric_name, config.window_length, config.anchored, config.step_months>>

EnsInit ==
    /\ pc = "ensemble_loop"
    /\ call = NoCall
    /\ ret = <<>>
    /\ \E n \in 1..MaxConfigs : \E config_list \in [1..n -> EnsConfigs] :
          ens = [active |-> TRUE, config_list |-> config_list, i |-> 1,
                 results |-> <<>>, aggs |-> <<>>]
    /\ df = BtFrame(EnsIndex)
    /\ turnover_df = BtTurnoverFrame("some", EnsIndex)
    /\ cfg = [fn |-> "none"]
    /\ slices = <<>>
    /\ in_sample_results = <<>>
    /\ oos_results = <<>>
    /\ agg = [kind |-> "unset"]
    /\ err = [kind |-> "none"]

\* The head of one iteration of the loop of run: the metric is looked up (an
\* unknown name raises ValueError out of run) and the FullBacktester of the
\* configuration is constructed
EnsConfigBegin ==
    /\ pc = "ensemble_loop"
    /\ ens.i <= Len(ens.config_list)
    /\ \E config \in { ens.config_list[ens.i] } :
       \E metric_func \in { MetricsGet(config.metric_name) } :
           IF ~metric_func.present
           THEN /\ pc' = "raised"
                /\ err' = [kind |-> "ValueError", in |-> "FullBacktesterEnsemble.run",
                           at |-> ens.i]
                /\ UNCHANGED <<cfg, slices, in_sample_results, oos_results, agg>>
           ELSE /\ pc' = "constructed"
                /\ cfg' = [ first_os |-> config.first_os,
                            window_length |-> config.window_length,
                            step_months |-> config.step_months,
                            anchored |-> config.anchored,
                            risk_free_rate |-> config.risk_free_rate,
                            metric |-> metric_func.func,
                            top_n |-> config.top_n,
                            max_corr |-> config.max_corr,
                            max_columns |-> config.max_columns,
                            min_avg_trade |-> config.min_avg_trade ]
                /\ slices' = GenerateSlices(IndexMax(df), config.first_os,
                                            config.window_length, config.anchored,
                                            config.step_months)
                /\ in_sample_results' = <<>>
                /\ oos_results' = <<>>
                /\ agg' = [kind |-> "unset"]
                /\ err' = err
    /\ UNCHANGED <<call, ret, df, turnover_df, ens>>

\* The tail of the iteration: self.results[config_key] = agg.  'aggs' records
\* the aggregate of every configuration in list order (not a field of the
\* program).
EnsConfigEnd ==
    /\ ens.active
    /\ pc = "aggregated"
    /\ \E config \in { ens.config_list[ens.i] } :
          ens' = [ens EXCEPT !.i = ens.i + 1,
                             !.results = DictSet(ens.results, ConfigKey(config),
                                                 [key |-> ConfigKey(config), val |-> agg]),
                             !.aggs = Append(ens.aggs, agg)]
    /\ pc' = "ensemble_loop"
    /\ UNCHANGED <<call, ret, btvars>>

\* The loop is over: return self.results
EnsReturn ==
    /\ pc = "ensemble_loop"
    /\ ens.i > Len(ens.config_list)
    /\ ret' = ens.results
    /\ pc' = "ensemble_returned"
    /\ UNCHANGED <<call, btvars, ens>>

EnsNext ==
    \/ EnsConfigBegin
    \/ RunInSampleBegin
    \/ RunInSampleStep
    \/ RunInSampleEnd
    \/ RunOosBegin
    \/ RunOosStep
    \/ RunOosEnd
    \/ AggregateOosCall
    \/ EnsConfigEnd
    \/ EnsReturn

EnsSpec == EnsInit /\ [][EnsNext]_vars

\* run has ended, by returning or by an exception
EnsEnded == ens.active /\ pc \in {"ensemble_returned", "raised"}

\* Claim C11: when run ends, it has returned, and the returned results hold
\* an entry under the key of every configuration of config_list whose
\* metric_name is registered, whether or not another configuration of the
\* list names an unknown metric.
C11_UnknownMetricFailsAlone ==
    EnsEnded =>
        \A i \in 1..Len(ens.config_list) :
            MetricsGet(ens.config_list[i].metric_name).present =>
                /\ pc = "ensemble_returned"
                /\ \E k \in 1..Len(ret) : ret[k].key = ConfigKey(ens.config_list[i])

\* Claim C12: the returned results hold, for every configuration of
\* config_list, an entry with that configuration's own aggregate, and two
\* configurations that differ in any field have different keys.
C12_OneEntryPerConfiguration ==
    (ens.active /\ pc = "ensemble_returned") =>
        /\ \A i \in 1..Len(ens.config_list) :
              \E k \in 1..Len(ret) :
                  /\ ret[k].key = ConfigKey(ens.config_list[i])
                  /\ ret[k].val = ens.aggs[i]
        /\ \A i, j \in 1..Len(ens.config_list) :
              ens.config_list[i] # ens.config_list[j] =>
                  ConfigKey(ens.config_list[i]) # ConfigKey(ens.config_list[j])

-----------------------------------------------------------------------------
(* Specification BestSpec: InitialSelector(df, risk_free_rate)               *)
(* .select_best(metric_func, top_n) on three assets, for the scoring         *)
(* functions whose scores are computed: highest_return (descending) and      *)
(* max_drawdown (ascending).                                                 *)

\* Columns of returns: whole numbers, the first above -1
BestColPool == { <<0, 0, 0>>, <<0, 1, 0>>, <<1, 1, 0>>, <<0, 0 - 1, 0>>,
                 <<1, 0, 0 - 1>>, <<1, 0 - 2, 0>>, <<1, 0 - 3, 1>> }

BestMetrics == { MetricsGet(name).func : name \in {"highest_return", "max_drawdown"} }

BestInit ==
    /\ pc = "start"
    /\ call \in [ fn : {"InitialSelector.select_best"},
                  columns : {ColNames},
                  data : [1..Len(ColNames) -> BestColPool],
                  risk_free_rate : {0},
                  metric : BestMetrics,
                  top_n : 0..(MaxTopN + 1) ]
    /\ ret = <<>>
    /\ IdleBacktester

CallSelectBest ==
    /\ pc = "start"
    /\ call.fn = "InitialSelector.select_best"
    /\ ret' = SelectBest(call.columns, call.data, call.risk_free_rate, call.metric,
                         call.top_n)
    /\ pc' = "returned"
    /\ UNCHANGED <<call, btvars, ens>>

BestNext == CallSelectBest

BestSpec == BestInit /\ [][BestNext]_vars

BestReturned == pc = "returned" /\ call.fn = "InitialSelector.select_best"

\* The score of the asset of a name in the call: the column sum for
\* highest_return, the largest relative fall below the running peak of the
\* cumulative product for max_drawdown
ScoreOfAsset(name) ==
    LET x == call.data[CHOOSE j \in 1..Len(call.columns) : call.columns[j] = name]
    IN  IF call.metric.name = "highest_return" THEN SumSeq(x)
        ELSE MetricValues(call.metric, <<x>>, call.risk_free_rate)[1]

\* Score a is strictly better than score b under the direction flag of the call
StrictlyBetter(a, b) == IF call.metric.ascending THEN a < b ELSE a > b

\* Claim C15: select_best returns min(top_n, number of assets) distinct
\* assets, each returned value is the score of the asset of the same position,
\* no returned asset has a strictly better score than an asset returned
\* before it, and no asset left out has a strictly better score than a
\* returned one.
C15_SelectBestOrdered ==
    BestReturned =>
        /\ Len(ret.columns) = Min(call.top_n, Len(call.columns))
        /\ Len(ret.values) = Len(ret.columns)
        /\ \A i \in 1..Len(ret.columns) :
              /\ ret.columns[i] \in NameSet
              /\ ret.values[i] = ScoreOfAsset(ret.columns[i])
        /\ \A i, j \in 1..Len(ret.columns) :
              i < j => /\ ret.columns[i] # ret.columns[j]
                       /\ ~StrictlyBetter(ret.values[j], ret.values[i])
        /\ \A name \in NameSet :
              (\A i \in 1..Len(ret.columns) : ret.columns[i] # name) =>
                  \A i \in 1..Len(ret.columns) :
                      ~StrictlyBetter(ScoreOfAsset(name), ret.values[i])

\* The ascending function returned two assets of different scores out of
\* three, the asset left out being strictly worse than both
C15_Witness ==
    /\ BestReturned
    /\ call.metric.ascending
    /\ call.top_n = 2
    /\ Len(ret.columns) = 2
    /\ ret.values[1] < ret.values[2]
    /\ \E name \in NameSet :
          /\ \A i \in 1..2 : ret.columns[i] # name
          /\ ScoreOfAsset(name) > ret.values[2]

-----------------------------------------------------------------------------
(* Specification DispatchSpec: the call of the scoring function at the head  *)
(* of InitialSelector.select_best, for every function of METRICS.            *)

DispatchInit ==
    /\ pc = "start"
    /\ call \in [ fn : {"metric_func"},
                  metric : METRICS,
                  data : [1..Len(ColNames) -> BestColPool],
                  risk_free_rate : {0, 1} ]
    /\ ret = <<>>
    /\ IdleBacktester

CallMetricFunc ==
    /\ pc = "start"
    /\ call.fn = "metric_func"
    /\ ret' = MetricCall(call.metric, call.data, call.risk_free_rate)
    /\ pc' = "returned"
    /\ UNCHANGED <<call, btvars, ens>>

DispatchNext == CallMetricFunc

DispatchSpec == DispatchInit /\ [][DispatchNext]_vars

\* The function of the call declares a risk-free-rate parameter
AcceptsRiskFreeRate ==
    \E i \in 1..Len(call.metric.params) : call.metric.params[i] = "risk_free_rate"

\* Claim C16: for every function of METRICS, the risk-free rate is among the
\* arguments of the call exactly when the function declares a risk-free-rate
\* parameter, it is bound to that parameter and to no other, and a function
\* without such a parameter gets the return matrix only.
C16_RiskFreeRateDispatch ==
    (pc = "returned" /\ call.fn = "metric_func") =>
        /\ (\E k \in 1..Len(ret.bound) : ret.bound[k].arg = "self.risk_free_rate")
              <=> AcceptsRiskFreeRate
        /\ \A k \in 1..Len(ret.bound) :
              ret.bound[k].arg = "self.risk_free_rate" =>
                  ret.bound[k].param = "risk_free_rate"
        /\ ~AcceptsRiskFreeRate =>
              /\ Len(ret.bound) = 1
              /\ ret.bound[1].arg = "self.data"

====
